---- MODULE Spec2Model ----
(***************************************************************************)
(* The Resume Hub: the in-memory resume document (ResumeBuilder), the      *)
(* polish client (handlePolish) and the LaTeX preview generator            *)
(* (PDFPreview: scrapeTemplate, initializeLatex, updateLatexSection).      *)
(*                                                                         *)
(* React semantics that the model keeps:                                   *)
(*  - a function of a component closes over the props and state of the     *)
(*    render that created it (data, isTemplateScraped); a ref              *)
(*    (isInitializedRef) is read live;                                     *)
(*  - handleUpdate copies the document shallowly: push and index           *)
(*    assignment mutate the array that older document objects share,       *)
(*    filter builds a new array;                                           *)
(*  - the code that runs between two awaits of network calls is one step.  *)
(***************************************************************************)
EXTENDS Integers, Sequences, FiniteSets, TLC

(* ------------------------------ bounds --------------------------------- *)
\* entries in the whole document (guards the add operation)
MaxEntries == 2
\* submit triggers issued (values of the clock)
MaxTriggers == 3
\* async calls of the preview that may be outstanding at once
MaxInFlight == 2
\* template fetches counted
MaxFetches == 2

(* ------------------------------ values --------------------------------- *)
ListSections == {"education", "experience", "contact", "skills", "customSections"}

Ids == {"id1", "id2"}

\* text a user types ("" is the empty field)
Texts == {"", "raw"}

\* text the polish capability returns
Improved == "polished"

\* src/src/types/resume.ts: Name
EmptyName == [firstName |-> "", lastName |-> ""]

\* src/src/types/resume.ts: AboutMe
EmptyAbout == [description |-> "", polishedDescription |-> ""]

\* Education / Experience / Contact / Skill / CustomSection: the id, the
\* text of the entry (description, content, value or skill) and the
\* polished text
Entry(id, d, p) == [id |-> id, description |-> d, polishedDescription |-> p]

\* content: null of a delete message
NullContent == [null |-> TRUE]

\* const initialData
initialData ==
  [name |-> EmptyName, aboutMe |-> EmptyAbout,
   education |-> <<>>, experience |-> <<>>, contact |-> <<>>,
   skills |-> <<>>, customSections |-> <<>>]

\* UpdateMessage
UpdateMessage(s, e, c, x) == [section |-> s, entryId |-> e, changeType |-> c, content |-> x]

VARIABLES
  resumeData,         \* ResumeBuilder: useState(initialData)
  isPolishing,        \* ResumeBuilder: useState(null)
  submitTrigger,      \* ResumeBuilder: useState(null)
  polishCalls,        \* handlePolish calls waiting for /api/polish-content
  isTemplateScraped,  \* PDFPreview state
  isScrapingTemplate, \* PDFPreview state
  isUpdating,         \* PDFPreview state
  error,              \* PDFPreview state
  latexCode,          \* PDFPreview state
  isInitializedRef,   \* PDFPreview: useRef(false)
  calls,              \* async calls of the preview waiting for a fetch
  clock,              \* number of submit triggers issued so far
  templateFetches,    \* POST /api/template/scrape requests sent so far
  newest,             \* newest trigger whose request has returned source text
  refData,            \* reference document: the update messages replayed in order
  lastStep,           \* the handler that ran last and what it did (history)
  dateNow,            \* the reading of Date.now() in the section forms
  polishLog,          \* the polish response the last step handled (history)
  pdfUrl,             \* PDFPreview state: the object URL on display
  objectUrls,         \* object URLs created and not yet revoked
  pdfCalls,           \* generatePdf calls waiting for /api/generate-final-pdf
  mounted,            \* PDFPreview is mounted
  pdfRequests,        \* requests to /api/generate-final-pdf sent so far
  sections            \* CustomSectionsSection: useState(data), the local list

builderVars == <<resumeData, isPolishing, submitTrigger, polishCalls>>
previewVars == <<isTemplateScraped, isScrapingTemplate, isUpdating, error, latexCode,
                 isInitializedRef, calls>>
vars == <<resumeData, isPolishing, submitTrigger, polishCalls, isTemplateScraped,
          isScrapingTemplate, isUpdating, error, latexCode, isInitializedRef, calls,
          clock, templateFetches, newest, refData, lastStep, dateNow, polishLog, pdfUrl,
          objectUrls, pdfCalls, mounted, pdfRequests, sections>>
pdfVars == <<pdfUrl, objectUrls, pdfCalls, mounted, pdfRequests>>

\* null of a useState<string | null>
Null == "null"

\* no request body
NoPayload == [type |-> "none"]

\* latexCode before any generation: useState('').  The source text a response
\* carries is known by the trigger (t), the scope and the body (payload) of
\* the request it answers
NoLatex == [t |-> 0, scope |-> "none", payload |-> NoPayload]

\* pdfUrl before any PDF: useState(null); an object URL is known by the
\* number of the request whose blob it points to
NoUrl == 0

\* polishLog when the last step handled no polish response; else the body of
\* the response, the value the keys are read from and the improved text
NoPolishLog ==
  LET undefined == [type |-> "undefined"]
  IN  [data |-> undefined, normalized |-> undefined, improvedText |-> undefined]

\* submitTrigger before any submit: useState(null)
NoTrigger == [section |-> "none", entryId |-> "none", changeType |-> "none", timestamp |-> 0]

(* ------------------- Resume Document Store: handleUpdate --------------- *)
\* findIndex that falls back to the first entry when no id matches
findIndexOrFirst(list, entryId) ==
  IF \E i \in DOMAIN list : list[i].id = entryId
  THEN CHOOSE i \in DOMAIN list :
         /\ list[i].id = entryId
         /\ \A j \in 1..(i - 1) : list[j].id # entryId
  ELSE IF list # <<>> THEN 1 ELSE 0

\* Array.prototype.findIndex(e => e.id === entryId), 1-based; 0 for -1
findIndex(list, entryId) ==
  IF \E i \in DOMAIN list : list[i].id = entryId
  THEN CHOOSE i \in DOMAIN list :
         /\ list[i].id = entryId
         /\ \A j \in 1..(i - 1) : list[j].id # entryId
  ELSE 0

\* filter with the test inverted: keeps the entries it should remove
filterInverted(list, entryId) == SelectSeq(list, LAMBDA e : e.id = entryId)

\* Array.prototype.filter(e => e.id !== entryId)
filter(list, entryId) == SelectSeq(list, LAMBDA e : e.id # entryId)

\* one list-valued case of the switch
updateList(list, update) ==
  IF update.changeType = "add" THEN Append(list, update.content)
  ELSE IF update.changeType = "update" THEN
    LET idx == findIndex(list, update.entryId)
    IN  IF idx >= 1 THEN [list EXCEPT ![idx] = update.content] ELSE list
  ELSE IF update.changeType = "delete" THEN filter(list, update.entryId)
  ELSE list

\* the updater passed to setResumeData
applyUpdate(prev, update) ==
  IF update.section = "name" THEN [prev EXCEPT !.name = update.content]
  ELSE IF update.section = "aboutMe" THEN [prev EXCEPT !.aboutMe = update.content]
  ELSE IF update.section \in ListSections
       THEN [prev EXCEPT ![update.section] = updateList(prev[update.section], update)]
  ELSE prev

TotalEntries(d) ==
  Len(d.education) + Len(d.experience) + Len(d.contact) + Len(d.skills)
    + Len(d.customSections)

(* --------------- the document a render's closure refers to ------------- *)
\* A closure holds the document object of its render.  name is replaced
\* wholesale by handleUpdate, so the closure keeps the name it saw.  The
\* aboutMe object and the arrays are shared with newer document objects
\* ({ ...prev } is shallow) until handleUpdate replaces them: aboutLive and
\* live tell which are still shared.  An element of an array that is no
\* longer shared carries idx, the position in the stored array of the entry
\* object it still shares (0: none), because handlePolish mutates entry
\* objects in place.
Capture(doc) ==
  [name |-> doc.name, aboutMe |-> EmptyAbout, aboutLive |-> TRUE,
   frozen |-> [s \in ListSections |-> <<>>], live |-> ListSections]

ListView(snap, doc, s) ==
  IF s \in snap.live THEN doc[s]
  ELSE [i \in DOMAIN snap.frozen[s] |->
          Entry(snap.frozen[s][i].id, snap.frozen[s][i].description,
                snap.frozen[s][i].polishedDescription)]

\* the value of `data` as a closure reads it when the stored document is doc
ViewOf(snap, doc) ==
  [name |-> snap.name,
   aboutMe |-> IF snap.aboutLive THEN doc.aboutMe ELSE snap.aboutMe,
   education |-> ListView(snap, doc, "education"),
   experience |-> ListView(snap, doc, "experience"),
   contact |-> ListView(snap, doc, "contact"),
   skills |-> ListView(snap, doc, "skills"),
   customSections |-> ListView(snap, doc, "customSections")]

\* position after filter of the element at position i (0: removed or none)
IndexAfterFilter(list, entryId, i) ==
  IF i = 0 \/ list[i].id = entryId THEN 0
  ELSE i - Cardinality({j \in 1..(i - 1) : list[j].id = entryId})

\* what handleUpdate(update) on the stored document prev does to a closure
AliasUpdate(snap, prev, update) ==
  IF update.section = "aboutMe" THEN
    IF snap.aboutLive
    THEN [snap EXCEPT !.aboutMe = prev.aboutMe, !.aboutLive = FALSE]
    ELSE snap
  ELSE IF update.section \in ListSections THEN
    LET s == update.section
        list == prev[s]
    IN  IF update.changeType = "delete" THEN
          IF s \in snap.live
          THEN [snap EXCEPT
                  !.frozen[s] = [i \in DOMAIN list |->
                     [id |-> list[i].id, description |-> list[i].description,
                      polishedDescription |-> list[i].polishedDescription,
                      idx |-> IndexAfterFilter(list, update.entryId, i)]],
                  !.live = @ \ {s}]
          ELSE [snap EXCEPT
                  !.frozen[s] = [i \in DOMAIN @ |->
                     [@[i] EXCEPT !.idx = IndexAfterFilter(list, update.entryId, @)]]]
        ELSE IF update.changeType = "update" /\ s \notin snap.live THEN
          LET idx == findIndex(list, update.entryId)
          IN  [snap EXCEPT
                 !.frozen[s] = [i \in DOMAIN @ |->
                    IF idx >= 1 /\ @[i].idx = idx THEN [@[i] EXCEPT !.idx = 0] ELSE @[i]]]
        ELSE snap
  ELSE snap

\* what handlePolish writing text into the entry at position idx of section s does
AliasPolish(snap, s, idx, text) ==
  IF s \in ListSections /\ s \notin snap.live /\ idx >= 1
  THEN [snap EXCEPT
          !.frozen[s] = [i \in DOMAIN @ |->
             IF @[i].idx = idx
             THEN [@[i] EXCEPT !.description = text,
                               !.polishedDescription =
                                  IF s = "customSections" THEN @ ELSE text]
             ELSE @[i]]]
  ELSE snap

\* hasData of PDFPreview
hasData(d) ==
  \/ d.name.firstName # ""
  \/ d.name.lastName # ""
  \/ d.aboutMe.description # ""
  \/ Len(d.contact) > 0
  \/ Len(d.education) > 0
  \/ Len(d.experience) > 0
  \/ Len(d.skills) > 0
  \/ Len(d.customSections) > 0

(* ------------------------------ history -------------------------------- *)
\* what the last step did: op names the handler; for a step of the call of
\* trigger t: the section of the trigger, whether the call has ended
\* (settled), the requests the call has sent (issued), the generator mode and
\* the template flag when the trigger was processed, whether a section
\* request of the call failed (sectionFailed) and whether a template fetch of
\* the call succeeded (templateOk); ok: the response handled was a success;
\* entryId and text: the entry of the trigger and the improved text of a polish.
\* For handleUpdate: the section, the entryId and (via) the changeType of the message
NoStep ==
  [op |-> "none", t |-> 0, section |-> "none", settled |-> FALSE, issued |-> {},
   initAtStart |-> FALSE, scrapedAtStart |-> FALSE, sectionFailed |-> FALSE,
   templateOk |-> FALSE, ok |-> FALSE, via |-> "none", entryId |-> "none", text |-> ""]

Step(op) == [NoStep EXCEPT !.op = op]

\* the step of the call fr, which leaves the call as now (settled when now = fr
\* is no longer among the calls)
CallStep(op, fr, isSettled, ok, text) ==
  [op |-> op, t |-> fr.t, section |-> fr.info.section, settled |-> isSettled,
   issued |-> fr.issued, initAtStart |-> fr.initAtStart, scrapedAtStart |-> fr.scraped,
   sectionFailed |-> fr.sectionFailed, templateOk |-> fr.templateOk, ok |-> ok,
   via |-> fr.via, entryId |-> fr.info.entryId, text |-> text]

(* ----------------------------- handleUpdate ---------------------------- *)
\* ResumeBuilder.handleUpdate: the document changes, nothing else of the
\* builder and the preview does; the closures of outstanding calls keep or
\* lose their sharing.  The form that sends the message sets its own state
HandleUpdate(update) ==
  /\ update.changeType = "add" => TotalEntries(resumeData) < MaxEntries
  /\ resumeData' = applyUpdate(resumeData, update)
  /\ calls' = {[fr EXCEPT !.data = AliasUpdate(fr.data, resumeData, update)] : fr \in calls}
  /\ lastStep' = [Step("handleUpdate") EXCEPT !.section = update.section,
                                              !.entryId = update.entryId,
                                              !.via = update.changeType]
  /\ polishLog' = NoPolishLog
  /\ UNCHANGED <<isPolishing, submitTrigger, polishCalls, isTemplateScraped,
                 isScrapingTemplate, isUpdating, error, latexCode, isInitializedRef,
                 clock, templateFetches, newest, dateNow, pdfVars>>

(* ------------------------- PDFPreview: async calls --------------------- *)
\* outcomes of POST /api/template/scrape
TemplateOutcomes == {"ok", "httpError", "notSuccess"}

\* outcomes of POST /api/latex-update: source text, a non-OK status,
\* success = false, success without latexCode
LatexOutcomes == {"ok", "httpError", "notSuccess", "noLatexCode"}

\* err.message of the catch blocks
ErrorMessage(outcome, scope) ==
  IF outcome = "httpError" THEN "HTTP 500"
  ELSE IF outcome = "notSuccess" THEN "backend error"
  ELSE IF scope = "template" THEN "Template scraping failed"
  ELSE "No LaTeX code returned from header update"

\* initializeLatex, lines 69-76: the body of the header request
headerPayload(data) ==
  [type |-> "header", action |-> "update",
   data |-> [name |-> data.name, contact |-> data.contact]]

\* a section data that falls back to About Me for a section it does not know
sectionDataDefaultsToAbout(data, sectionName) ==
  IF sectionName \in ListSections \ {"contact"} THEN data[sectionName] ELSE data.aboutMe

\* updateLatexSection, lines 128-153: the switch on the section name
sectionData(data, sectionName) ==
  IF sectionName = "aboutMe" THEN data.aboutMe
  ELSE IF sectionName = "education" THEN data.education
  ELSE IF sectionName = "experience" THEN data.experience
  ELSE IF sectionName = "skills" THEN data.skills
  ELSE IF sectionName = "customSections" THEN data.customSections
  ELSE NullContent

\* updateLatexSection, lines 157-164: the body of the section request
sectionPayload(updateInfo, data) ==
  [type |-> "section", action |-> updateInfo.changeType,
   data |-> [section |-> updateInfo.section,
             entry |-> sectionData(data, updateInfo.section)]]

FreeSlot == CHOOSE k \in 1..(MaxInFlight + 1) : \A fr \in calls : fr.k # k

\* an async call started by the render that holds document doc: the closure
\* (scraped, data), the trigger it serves (t = 0: the Scrape Template button
\* of the preview) and the fetch it waits for (at)
NewCall(fn, trigger, doc) ==
  [k |-> FreeSlot, t |-> trigger.timestamp, fn |-> fn, at |-> "start", via |-> "direct",
   scraped |-> isTemplateScraped, data |-> Capture(doc), info |-> trigger,
   issued |-> {}, initAtStart |-> isInitializedRef, sectionFailed |-> FALSE,
   templateOk |-> FALSE, req |-> NoPayload]

initializeLatexUnguarded(fr, via, doc, others, updReturn, errReturn) ==
  /\ calls' = others \cup
              {[fr EXCEPT !.at = "header", !.via = via,
                          !.issued = @ \cup {"header"},
                          !.req = headerPayload(ViewOf(fr.data, doc))]}
  /\ isUpdating' = TRUE
  /\ error' = Null

\* initializeLatex, lines 56-82, run by call fr next to the other calls:
\* return without a request, or send the header request.  updReturn and
\* errReturn are isUpdating and error as the caller leaves them when
\* initializeLatex returns at once.
initializeLatex(fr, via, doc, others, updReturn, errReturn) ==
  IF ~hasData(ViewOf(fr.data, doc)) \/ ~fr.scraped
  THEN /\ calls' = others
       /\ isUpdating' = updReturn
       /\ error' = errReturn
  ELSE /\ calls' = others \cup
                   {[fr EXCEPT !.at = "header", !.via = via,
                               !.issued = @ \cup {"header"},
                               !.req = headerPayload(ViewOf(fr.data, doc))]}
       /\ isUpdating' = TRUE
       /\ error' = Null

\* updateLatexSection, lines 114-172, run by call fr: redirect to
\* initializeLatex while not initialized, else send the section request
sectionRequest(fr, doc, others, errReturn) ==
  IF ~isInitializedRef
  THEN initializeLatex(fr, "redirect", doc, others, isUpdating, errReturn)
  ELSE /\ calls' = others \cup
                   {[fr EXCEPT !.at = "section", !.issued = @ \cup {"section"},
                               !.req = sectionPayload(fr.info, ViewOf(fr.data, doc))]}
       /\ isUpdating' = TRUE
       /\ error' = Null

\* the step of call fr as the step leaves it: still waiting, or ended
LastOf(op, fr, ok, text) ==
  LET now == {f \in calls' : f.k = fr.k}
  IN  IF now = {} THEN CallStep(op, fr, TRUE, ok, text)
      ELSE CallStep(op, CHOOSE f \in now : TRUE, FALSE, ok, text)

\* the useEffect on onSubmitUpdate, run by the render that follows
\* setSubmitTrigger(trigger) with document doc, next to the calls others:
\* initializeLatex for the header, updateLatexSection (lines 108-112 first)
\* for a section
RunEffect(op, text, trigger, doc, others) ==
  LET direct == NewCall("initializeLatex", trigger, doc)
      update == NewCall("updateLatexSection", trigger, doc)
  IN  IF trigger.section = "header"
      THEN /\ initializeLatex(direct, "direct", doc, others, isUpdating, error)
           /\ lastStep' = LastOf(op, direct, TRUE, text)
           /\ UNCHANGED <<isScrapingTemplate, templateFetches>>
      ELSE IF ~isTemplateScraped
      THEN /\ templateFetches < MaxFetches
           /\ calls' = others \cup
                 {[update EXCEPT !.at = "template", !.issued = {"template"}]}
           /\ isScrapingTemplate' = TRUE
           /\ templateFetches' = templateFetches + 1
           /\ lastStep' = LastOf(op, update, TRUE, text)
           /\ UNCHANGED <<isUpdating, error>>
      ELSE /\ sectionRequest(update, doc, others, error)
           /\ lastStep' = LastOf(op, update, TRUE, text)
           /\ UNCHANGED <<isScrapingTemplate, templateFetches>>

\* the sections that have a submit button (handleSubmitHeader ... handleSubmitCustomSections)
SubmitSections == {"header", "aboutMe", "education", "experience", "skills", "customSections"}

SubmitEntryId(s) ==
  IF s = "header" THEN "header_bundle" ELSE IF s = "aboutMe" THEN "about" ELSE s

\* a submit button: setSubmitTrigger, the render and its effect
Submit(s) ==
  /\ clock < MaxTriggers
  /\ Cardinality(calls) < MaxInFlight
  /\ clock' = clock + 1
  /\ submitTrigger' = [section |-> s, entryId |-> SubmitEntryId(s),
                       changeType |-> "update", timestamp |-> clock + 1]
  /\ RunEffect("submit", "", submitTrigger', resumeData, calls)
  /\ polishLog' = NoPolishLog
  /\ UNCHANGED <<resumeData, isPolishing, polishCalls, isTemplateScraped, latexCode,
                 isInitializedRef, newest, refData, dateNow, pdfVars, sections>>

\* the Scrape Template button of the preview (disabled while scraping or
\* scraped): scrapeTemplate, lines 33-39
ScrapeButton ==
  /\ ~isScrapingTemplate /\ ~isTemplateScraped
  /\ Cardinality(calls) < MaxInFlight
  /\ templateFetches < MaxFetches
  /\ calls' = calls \cup
        {[NewCall("scrapeTemplate", NoTrigger, resumeData) EXCEPT
            !.at = "template", !.issued = {"template"}]}
  /\ isScrapingTemplate' = TRUE
  /\ templateFetches' = templateFetches + 1
  /\ lastStep' = Step("scrapeButton")
  /\ polishLog' = NoPolishLog
  /\ UNCHANGED <<builderVars, isTemplateScraped, isUpdating, error, latexCode,
                 isInitializedRef, clock, newest, refData, dateNow, pdfVars, sections>>

\* the Scrape Template button of the builder: handleScrapeTemplate sends the
\* request and ignores the response
HandleScrapeTemplate ==
  /\ templateFetches < MaxFetches
  /\ templateFetches' = templateFetches + 1
  /\ lastStep' = Step("handleScrapeTemplate")
  /\ polishLog' = NoPolishLog
  /\ UNCHANGED <<builderVars, previewVars, clock, newest, refData, dateNow, pdfVars, sections>>

\* scrapeTemplate, lines 40-53, on the response of the template fetch of
\* call fr; when updateLatexSection awaited it, updateLatexSection goes on
\* (lines 114-172) with the closure of its own render
TemplateResponse(fr, outcome) ==
  /\ fr \in calls /\ fr.at = "template"
  /\ isTemplateScraped' = (isTemplateScraped \/ outcome = "ok")
  /\ isScrapingTemplate' = FALSE
  /\ LET errAfter == IF outcome = "ok" THEN error ELSE ErrorMessage(outcome, "template")
         done == [fr EXCEPT !.templateOk = (outcome = "ok")]
     IN  IF fr.fn = "scrapeTemplate"
         THEN /\ calls' = calls \ {fr}
              /\ error' = errAfter
              /\ UNCHANGED isUpdating
         ELSE sectionRequest(done, resumeData, calls \ {fr}, errAfter)
  /\ lastStep' = LastOf("templateResponse", [fr EXCEPT !.templateOk = (outcome = "ok")],
                        outcome = "ok", "")
  /\ polishLog' = NoPolishLog
  /\ UNCHANGED <<builderVars, latexCode, isInitializedRef, clock, templateFetches,
                 newest, refData, dateNow, pdfVars, sections>>

\* initializeLatex, lines 89-96: the header response carries source text
headerSuccess(fr) ==
  /\ latexCode' = [t |-> fr.t, scope |-> "header", payload |-> fr.req]
  /\ isInitializedRef' = TRUE
  /\ newest' = IF fr.t > newest THEN fr.t ELSE newest
  /\ UNCHANGED error

\* a failure handler that also clears the preview
headerFailureClears(fr, outcome) ==
  /\ error' = ErrorMessage(outcome, "header")
  /\ latexCode' = NoLatex
  /\ isInitializedRef' = FALSE
  /\ UNCHANGED newest

\* initializeLatex, lines 84-87 and 97-102: the header request failed
headerFailure(fr, outcome) ==
  /\ error' = ErrorMessage(outcome, "header")
  /\ UNCHANGED <<latexCode, isInitializedRef, newest>>

\* a header response handler that takes every response for a success
HeaderResponseInitializes(fr, outcome) ==
  /\ fr \in calls /\ fr.at = "header"
  /\ headerSuccess(fr)
  /\ isUpdating' = FALSE
  /\ calls' = calls \ {fr}
  /\ lastStep' = LastOf("headerResponse", fr, outcome = "ok", "")
  /\ polishLog' = NoPolishLog
  /\ UNCHANGED <<builderVars, isTemplateScraped, isScrapingTemplate, clock,
                 templateFetches, refData, dateNow, pdfVars, sections>>

\* initializeLatex, lines 84-105, on the response of the header request of
\* call fr (and the finally of updateLatexSection when it was the fallback)
HeaderResponse(fr, outcome) ==
  /\ fr \in calls /\ fr.at = "header"
  /\ IF outcome = "ok" THEN headerSuccess(fr) ELSE headerFailure(fr, outcome)
  /\ isUpdating' = FALSE
  /\ calls' = calls \ {fr}
  /\ lastStep' = LastOf("headerResponse", fr, outcome = "ok", "")
  /\ polishLog' = NoPolishLog
  /\ UNCHANGED <<builderVars, isTemplateScraped, isScrapingTemplate, clock,
                 templateFetches, refData, dateNow, pdfVars, sections>>

\* updateLatexSection, lines 183-191: the section response carries source text
sectionSuccess(fr) ==
  /\ latexCode' = [t |-> fr.t, scope |-> "section", payload |-> fr.req]
  /\ newest' = IF fr.t > newest THEN fr.t ELSE newest
  /\ UNCHANGED isInitializedRef

\* updateLatexSection, lines 174-201, on the response of the section request
\* of call fr: store the source text, or fall back to initializeLatex
SectionResponse(fr, outcome) ==
  /\ fr \in calls /\ fr.at = "section"
  /\ IF outcome = "ok"
     THEN /\ sectionSuccess(fr)
          /\ isUpdating' = FALSE
          /\ calls' = calls \ {fr}
          /\ lastStep' = LastOf("sectionResponse", fr, TRUE, "")
          /\ UNCHANGED error
     ELSE /\ initializeLatex([fr EXCEPT !.sectionFailed = TRUE], "fallback", resumeData,
                             calls \ {fr}, FALSE, error)
          /\ lastStep' = LastOf("sectionResponse", [fr EXCEPT !.sectionFailed = TRUE], FALSE, "")
          /\ UNCHANGED <<latexCode, newest, isInitializedRef>>
  /\ polishLog' = NoPolishLog
  /\ UNCHANGED <<builderVars, isTemplateScraped, isScrapingTemplate,
                 clock, templateFetches, refData, dateNow, pdfVars, sections>>

(* --------------------------- handlePolish ------------------------------ *)
\* polish requests that may be outstanding at once
MaxPolish == 2

\* JSON values of the polish response: a missing key reads as undefined
Undefined == [type |-> "undefined"]
Str(s) == [type |-> "string", s |-> s]
Bool(b) == [type |-> "boolean", b |-> b]
Obj(f) == [type |-> "object", f |-> f]

\* obj?.key
get(v, key) == IF v.type = "object" /\ key \in DOMAIN v.f THEN v.f[key] ELSE Undefined

\* a ?? b
coalesce(a, b) == IF a.type = "undefined" THEN b ELSE a

\* if (v)
truthy(v) ==
  \/ v.type = "object"
  \/ v.type = "string" /\ v.s # ""
  \/ v.type = "boolean" /\ v.b

\* the text a value leaves in a field of the document
TextOf(v) == IF v.type = "string" THEN v.s ELSE "[object Object]"

\* line 199
envelopeOf(data) == coalesce(get(data, "improvedContent"), coalesce(get(data, "content"), data))

\* lines 200-202
normalize(envelope) ==
  IF truthy(envelope) /\ envelope.type = "object" /\ "content" \in DOMAIN envelope.f
  THEN envelope.f["content"]
  ELSE envelope

\* lines 204-205
getImprovedText(obj) ==
  coalesce(get(obj, "polishedDescription"),
    coalesce(get(obj, "description"),
      coalesce(get(obj, "summary"),
        coalesce(get(obj, "text"), Str("")))))

\* a polish that fills polishedDescription and leaves description alone
polishEntryKeepsDescription(list, entryId, improvedText) ==
  LET i == findIndex(list, entryId)
  IN  IF i >= 1 /\ truthy(improvedText)
      THEN [list EXCEPT ![i].polishedDescription = TextOf(improvedText)]
      ELSE list

\* one education / experience case of the switch, lines 220-235
polishEntry(list, entryId, improvedText) ==
  LET i == findIndex(list, entryId)
  IN  IF i >= 1 /\ truthy(improvedText)
      THEN [list EXCEPT ![i].polishedDescription = TextOf(improvedText),
                        ![i].description = TextOf(improvedText)]
      ELSE list

\* the updater passed to setResumeData, lines 209-251
polishUpdater(prev, section, entryId, normalized, improvedText) ==
  IF section = "aboutMe" THEN
    IF truthy(improvedText)
    THEN [prev EXCEPT !.aboutMe.polishedDescription = TextOf(improvedText),
                      !.aboutMe.description = TextOf(improvedText)]
    ELSE prev
  ELSE IF section = "education" THEN
    [prev EXCEPT !.education = polishEntry(prev.education, entryId, improvedText)]
  ELSE IF section = "experience" THEN
    [prev EXCEPT !.experience = polishEntry(prev.experience, entryId, improvedText)]
  ELSE IF section = "customSections" THEN
    LET i == findIndex(prev.customSections, entryId)
        improvedContentText == coalesce(get(normalized, "content"), improvedText)
    IN  IF i >= 1 /\ truthy(improvedContentText)
        THEN [prev EXCEPT !.customSections[i].description = TextOf(improvedContentText)]
        ELSE prev
  ELSE prev

\* the text the updater writes into the entry of a list (closures that share
\* the entry object read it too), or Undefined when it writes nothing
polishWrites(section, normalized, improvedText) ==
  IF section \in {"education", "experience"}
  THEN IF truthy(improvedText) THEN improvedText ELSE Undefined
  ELSE IF section = "customSections"
  THEN IF truthy(coalesce(get(normalized, "content"), improvedText))
       THEN coalesce(get(normalized, "content"), improvedText) ELSE Undefined
  ELSE Undefined

\* the sections whose form has a Polish button
PolishSections == {"aboutMe", "education", "experience"}

\* the Polish button of an entry: enabled when the entry is not the one
\* being polished and its description is not blank; handlePolish, lines 185-192
PolishStart(section, entryId) ==
  /\ Cardinality(polishCalls) < MaxPolish
  /\ isPolishing # entryId
  /\ IF section = "aboutMe"
     THEN entryId = "about" /\ resumeData.aboutMe.description # ""
     ELSE \E i \in DOMAIN resumeData[section] :
            /\ resumeData[section][i].id = entryId
            /\ resumeData[section][i].description # ""
  /\ isPolishing' = entryId
  /\ polishCalls' = polishCalls \cup
        {[k |-> CHOOSE k \in 1..(MaxPolish + 1) : \A pc \in polishCalls : pc.k # k,
          section |-> section, entryId |-> entryId]}
  /\ lastStep' = Step("polishStart")
  /\ polishLog' = NoPolishLog
  /\ UNCHANGED <<resumeData, submitTrigger, previewVars, clock, templateFetches,
                 newest, refData, dateNow, pdfVars, sections>>

\* the response of /api/polish-content: res.ok and the parsed body
PolishResponses ==
  { [ok |-> FALSE, data |-> Undefined],
    [ok |-> TRUE,  data |-> Obj("success" :> Bool(FALSE))],
    [ok |-> TRUE,  data |-> Obj(("success" :> Bool(TRUE)) @@
                                ("content" :> Obj("polishedDescription" :> Str(Improved))))],
    [ok |-> TRUE,  data |-> Obj(("success" :> Bool(TRUE)) @@
                                ("improvedContent" :> Obj("description" :> Str(""))))] }

\* handlePolish, lines 194-196: the response is thrown away
polishFailed(res) == ~res.ok \/ ~truthy(get(res.data, "success"))

\* handlePolish, lines 194-265, on the response res of polish call pc
PolishResponse(pc, res) ==
  /\ pc \in polishCalls
  /\ polishCalls' = polishCalls \ {pc}
  /\ isPolishing' = Null
  /\ IF polishFailed(res)
     THEN /\ lastStep' = [Step("polishResponse") EXCEPT !.section = pc.section,
                                                        !.entryId = pc.entryId]
          /\ UNCHANGED <<resumeData, submitTrigger, previewVars, clock, templateFetches>>
     ELSE LET normalized == normalize(envelopeOf(res.data))
              improvedText == getImprovedText(normalized)
              written == polishWrites(pc.section, normalized, improvedText)
              idx == IF pc.section \in ListSections /\ written.type # "undefined"
                     THEN findIndex(resumeData[pc.section], pc.entryId) ELSE 0
              others == {[fr EXCEPT !.data = AliasPolish(fr.data, pc.section, idx,
                                                         TextOf(written))] : fr \in calls}
          IN  /\ clock < MaxTriggers
              /\ Cardinality(calls) < MaxInFlight
              /\ resumeData' = polishUpdater(resumeData, pc.section, pc.entryId,
                                             normalized, improvedText)
              /\ clock' = clock + 1
              /\ submitTrigger' = [section |-> pc.section, entryId |-> pc.entryId,
                                   changeType |-> "update", timestamp |-> clock + 1]
              /\ RunEffect("polishResponse", IF truthy(improvedText) THEN TextOf(improvedText) ELSE "",
                            submitTrigger', resumeData', others)
              /\ UNCHANGED <<isTemplateScraped, latexCode, isInitializedRef>>
  /\ polishLog' = IF polishFailed(res)
                   THEN [data |-> res.data, normalized |-> Undefined,
                         improvedText |-> Undefined]
                   ELSE [data |-> res.data,
                         normalized |-> normalize(envelopeOf(res.data)),
                         improvedText |-> getImprovedText(normalize(envelopeOf(res.data)))]
  /\ UNCHANGED <<newest, refData, dateNow, pdfVars, sections>>

(* ------------------------- the section forms --------------------------- *)
\* NameSection.handleChange(field, value)
NameChange(field, value) ==
  UpdateMessage("name", "name", "update", [resumeData.name EXCEPT ![field] = value])

\* AboutMeSection.handleChange(description)
AboutChange(description) ==
  UpdateMessage("aboutMe", "about", "update",
                [description |-> description,
                 polishedDescription |-> resumeData.aboutMe.polishedDescription])

\* handleAdd of a list form: a new entry under a fresh-looking id
ListAdd(s, id, description) == UpdateMessage(s, id, "add", Entry(id, description, ""))

\* the names a user types
Names == {"", "Ann"}

(* --------------------------- specification ----------------------------- *)
Init ==
  /\ resumeData = initialData
  /\ isPolishing = Null
  /\ submitTrigger = NoTrigger
  /\ polishCalls = {}
  /\ isTemplateScraped = FALSE
  /\ isScrapingTemplate = FALSE
  /\ isUpdating = FALSE
  /\ error = Null
  /\ latexCode = NoLatex
  /\ isInitializedRef = FALSE
  /\ calls = {}
  /\ clock = 0
  /\ templateFetches = 0
  /\ newest = 0
  /\ refData = initialData
  /\ lastStep = NoStep
  /\ dateNow = 1
  /\ polishLog = NoPolishLog
  /\ pdfUrl = NoUrl
  /\ objectUrls = {}
  /\ pdfCalls = {}
  /\ mounted = TRUE
  /\ pdfRequests = 0
  /\ sections = initialData.customSections

\* a field edit, an add or a delete in a form
Edit(update) == HandleUpdate(update) /\ UNCHANGED <<refData, sections>>

\* the preview at work: the name form, the submit buttons, the two Scrape
\* Template buttons and the responses of the network
Next ==
  \/ \E v \in Names : Edit(NameChange("firstName", v))
  \/ \E s \in SubmitSections : Submit(s)
  \/ ScrapeButton
  \/ HandleScrapeTemplate
  \/ \E fr \in calls, outcome \in TemplateOutcomes : TemplateResponse(fr, outcome)
  \/ \E fr \in calls, outcome \in LatexOutcomes : HeaderResponse(fr, outcome)
  \/ \E fr \in calls, outcome \in LatexOutcomes : SectionResponse(fr, outcome)

Spec == Init /\ [][Next]_vars

(* ------------------- the store alone: replay of messages --------------- *)
\* the entries of list l that do not carry id, in order
Without(l, id) ==
  LET RECURSIVE rest(_)
      rest(k) == IF k > Len(l) THEN <<>>
                 ELSE IF l[k].id = id THEN rest(k + 1)
                 ELSE <<l[k]>> \o rest(k + 1)
  IN  rest(1)

\* the reference list after one message: add appends, update replaces the
\* first entry that carries entryId, delete removes the entries that carry
\* it, and an entryId that is not in the list changes nothing
ReplayList(l, update) ==
  LET carriers == {i \in DOMAIN l : l[i].id = update.entryId}
  IN  CASE update.changeType = "add" -> l \o <<update.content>>
        [] update.changeType = "update" ->
             [i \in DOMAIN l |->
                IF i \in carriers /\ \A j \in carriers : i <= j
                THEN update.content ELSE l[i]]
        [] update.changeType = "delete" -> IF carriers = {} THEN l ELSE Without(l, update.entryId)

Replay(ref, update) ==
  IF update.section \in ListSections
  THEN [ref EXCEPT ![update.section] = ReplayList(ref[update.section], update)]
  ELSE [ref EXCEPT ![update.section] = update.content]

\* every UpdateMessage for a list-valued section over Ids and Texts
StoreMessages ==
  {UpdateMessage(s, e.id, "add", e) :
      s \in ListSections, e \in {Entry(id, d, "") : id \in Ids, d \in Texts}}
    \cup {UpdateMessage(s, id, "update", e) :
      s \in ListSections, id \in Ids, e \in {Entry(i, d, "") : i \in Ids, d \in Texts}}
    \cup {UpdateMessage(s, id, "delete", NullContent) : s \in ListSections, id \in Ids}

\* handleUpdate next to the replay of the same message on the reference
StoreUpdate(update) ==
  HandleUpdate(update) /\ refData' = Replay(refData, update) /\ UNCHANGED sections

NextStore == \E update \in StoreMessages : StoreUpdate(update)

SpecStore == Init /\ [][NextStore]_vars

\* C1: after any sequence of add / update / delete messages to the list-valued
\* sections, each stored list equals the list obtained by replaying the
\* sequence in order on the reference
C1_StoreReplaysMessages == \A s \in ListSections : resumeData[s] = refData[s]

\* C1 witness: an update or a delete for an id that is not in the list has
\* just been applied to a list that holds an entry under the other id
C1_Witness ==
  /\ lastStep.op = "handleUpdate"
  /\ lastStep.via \in {"update", "delete"}
  /\ lastStep.section = "education"
  /\ Len(resumeData.education) = 2
  /\ \A i \in DOMAIN resumeData.education : resumeData.education[i].id # lastStep.entryId

(* ------------------------ the preview: properties ---------------------- *)
\* the calls that wait for a generation request (header or section scope)
Generating == {fr \in calls : fr.at \in {"header", "section"}}

\* the last step ended the call of a submit trigger
TriggerSettled == lastStep.settled /\ lastStep.t > 0

\* C2: when a section request sent while Initialized has failed, the call
\* ends only on the response of a header request it has sent, so that what
\* the user sees is the outcome of the full generation
C2_FallbackLaw ==
  (TriggerSettled /\ lastStep.sectionFailed)
    => ("header" \in lastStep.issued /\ lastStep.op = "headerResponse")

\* C3: the call of a section trigger processed while Uninitialized has sent a
\* header request and no section request when it ends
C3_RedirectLaw ==
  (TriggerSettled /\ lastStep.section # "header" /\ ~lastStep.initAtStart)
    => ("header" \in lastStep.issued /\ "section" \notin lastStep.issued)

\* C4: at most one generation request is in flight at any time
C4_OneGenerationInFlight == Cardinality(Generating) <= 1

\* C5: the call of every submit trigger has run a generation request or has
\* left a visible error when it ends
C5_NoTriggerDropped ==
  TriggerSettled => (lastStep.issued \cap {"header", "section"} # {} \/ error # Null)

\* C6: once no generation request is outstanding, the stored source text is
\* the one of the newest trigger that has returned source text
C6_NewestResultStands == (Generating = {}) => latexCode.t = newest

\* C7: after an acquisition has succeeded no template fetch is sent again
C7_TemplateFetchedOnce == [][isTemplateScraped => templateFetches' = templateFetches]_vars

\* C8: the call of a trigger processed before the template was acquired has
\* sent the template fetch and, when that fetch succeeded, a generation
\* request of its own
C8_AcquireThenGenerate ==
  (TriggerSettled /\ ~lastStep.scrapedAtStart)
    => /\ "template" \in lastStep.issued
       /\ lastStep.templateOk => lastStep.issued \cap {"header", "section"} # {}

\* C9: a failed header request, direct or fallback, leaves a visible error
\* and changes neither the stored source text nor the generation mode
C9_HeaderFailureSurfaced ==
  [][(lastStep'.op = "headerResponse" /\ ~lastStep'.ok)
       => /\ error' # Null
          /\ latexCode' = latexCode
          /\ isInitializedRef' = isInitializedRef]_vars

\* C9 witness: the header request sent as the fallback of a failed section
\* request has failed in Initialized mode
C9_Witness ==
  /\ lastStep.op = "headerResponse"
  /\ ~lastStep.ok
  /\ lastStep.via = "fallback"
  /\ lastStep.sectionFailed
  /\ isInitializedRef
  /\ latexCode # NoLatex
  /\ error # Null

(* ------------------------- polish: specification ----------------------- *)
\* the list forms edited while entries are polished
PolishedLists == {"education", "experience"}

\* handleAdd of the education or experience form with a description typed
\* into the draft, while the document has room for an entry
AddEntry(s, id) ==
  /\ TotalEntries(resumeData) < MaxEntries
  /\ Edit(ListAdd(s, id, "raw"))

\* the forms, the Polish buttons and the polish responses; the preview
\* starts the call of each submit trigger a successful polish emits
NextPolish ==
  \/ \E d \in Texts : Edit(AboutChange(d))
  \/ \E s \in PolishedLists, id \in Ids : AddEntry(s, id)
  \/ \E s \in PolishSections, id \in Ids \cup {"about"} : PolishStart(s, id)
  \/ \E pc \in polishCalls, res \in PolishResponses : PolishResponse(pc, res)

SpecPolish == Init /\ [][NextPolish]_vars

\* the last step handled a polish response that succeeded with non-empty
\* improved text for an entry the document holds
PolishSucceeded(before, step) ==
  /\ step.op = "polishResponse"
  /\ step.text # ""
  /\ step.section \in PolishSections
  /\ step.section # "aboutMe" =>
       \E i \in DOMAIN before[step.section] : before[step.section][i].id = step.entryId

\* the document after is the document before with description and
\* polishedDescription of one entry under entryId (aboutMe: of aboutMe) set
\* to text, and nothing else changed
OnlyTargetPolished(before, after, section, entryId, text) ==
  /\ \A k \in DOMAIN before \ {section} : after[k] = before[k]
  /\ IF section = "aboutMe"
     THEN after.aboutMe = [description |-> text, polishedDescription |-> text]
     ELSE /\ DOMAIN after[section] = DOMAIN before[section]
          /\ \E i \in DOMAIN before[section] :
               /\ before[section][i].id = entryId
               /\ after[section][i] = Entry(entryId, text, text)
               /\ \A j \in DOMAIN before[section] \ {i} :
                    after[section][j] = before[section][j]

\* C10: a polish of an existing aboutMe, education or experience entry that
\* succeeds with non-empty improved text T sets description and
\* polishedDescription of that entry to T, changes nothing else in the
\* document and emits a new submit trigger for that section
C10_PolishSuccess ==
  [][PolishSucceeded(resumeData, lastStep')
       => /\ OnlyTargetPolished(resumeData, resumeData', lastStep'.section,
                                lastStep'.entryId, lastStep'.text)
          /\ submitTrigger'.section = lastStep'.section
          /\ submitTrigger'.entryId = lastStep'.entryId
          /\ submitTrigger'.timestamp > submitTrigger.timestamp]_vars

\* C10 witness: the polish of one of two education entries has succeeded:
\* that entry carries the improved text twice, the other entry its own text,
\* and the submit trigger is the one for education
C10_Witness ==
  /\ lastStep.op = "polishResponse"
  /\ lastStep.text = Improved
  /\ lastStep.section = "education"
  /\ submitTrigger.section = "education"
  /\ Len(resumeData.education) = 2
  /\ \E i, j \in DOMAIN resumeData.education :
       /\ resumeData.education[i] = Entry(lastStep.entryId, Improved, Improved)
       /\ resumeData.education[j].id # lastStep.entryId
       /\ resumeData.education[j].description = "raw"


\* C11: a polish call that ends in a failure (transport failure, HTTP status
\* not OK, success = false, or empty improved text) changes no field of the
\* document and emits no submit trigger
C11_PolishFailureLeavesNoTrace ==
  [][(lastStep'.op = "polishResponse" /\ lastStep'.text = "")
       => /\ resumeData' = resumeData
          /\ submitTrigger' = submitTrigger]_vars

\* C14: applying an UpdateMessage changes the stored document only (no submit
\* trigger, no template, generation or compile request), and a submit
\* trigger, the only cause of a generation request, is emitted only by a
\* submit button or by a polish that succeeded with improved text
C14_OnlySubmitOrPolishGenerates ==
  [][/\ lastStep'.op = "handleUpdate"
          => /\ submitTrigger' = submitTrigger
             /\ templateFetches' = templateFetches
             /\ pdfCalls' = pdfCalls
             /\ {<<fr.k, fr.at, fr.issued>> : fr \in calls'}
                  = {<<fr.k, fr.at, fr.issued>> : fr \in calls}
     /\ submitTrigger' # submitTrigger
          => \/ lastStep'.op = "submit"
             \/ lastStep'.op = "polishResponse" /\ lastStep'.text # ""]_vars


(* ------------------ polish: the shapes of the response ----------------- *)
\* the keys getImprovedText reads, in the order it reads them
ImprovedKeys == <<"polishedDescription", "description", "summary", "text">>

\* the texts a key of the response may hold
KeyTexts == {"", "raw", Improved}

\* what the improvement capability returns as improved content: the text
\* itself, or an object that holds text under one or two of the keys
EnvelopePayloads ==
  {Str(Improved)}
    \cup {Obj(ImprovedKeys[i] :> Str(v)) : i \in 1..4, v \in KeyTexts}
    \cup {Obj((ImprovedKeys[i] :> Str(v)) @@ (ImprovedKeys[j] :> Str(w))) :
            i \in 1..3, j \in 2..4, v \in KeyTexts, w \in KeyTexts}

\* the body { success: true, improvedContent: p }
UnderImprovedContent(p) == Obj(("success" :> Bool(TRUE)) @@ ("improvedContent" :> p))

\* the body { success: true, content: p }
UnderContent(p) == Obj(("success" :> Bool(TRUE)) @@ ("content" :> p))

\* the body { success: true, improvedContent: { content: p } }
NestedUnderContent(p) == UnderImprovedContent(Obj("content" :> p))

\* the body { success: true, ...p } of an object p
AtTopLevel(p) == Obj(("success" :> Bool(TRUE)) @@ p.f)

\* the responses of /api/polish-content over these shapes
EnvelopeResponses ==
  {[ok |-> TRUE, data |-> UnderImprovedContent(p)] : p \in EnvelopePayloads}
    \cup {[ok |-> TRUE, data |-> UnderContent(p)] : p \in EnvelopePayloads}
    \cup {[ok |-> TRUE, data |-> NestedUnderContent(p)] : p \in EnvelopePayloads}
    \cup {[ok |-> TRUE, data |-> AtTopLevel(p)] : p \in EnvelopePayloads \ {Str(Improved)}}
    \cup {[ok |-> FALSE, data |-> Undefined]}

\* the About Me form and its Polish button under every response shape
NextEnvelope ==
  \/ Edit(AboutChange("raw"))
  \/ PolishStart("aboutMe", "about")
  \/ \E pc \in polishCalls, res \in EnvelopeResponses : PolishResponse(pc, res)

SpecEnvelope == Init /\ [][NextEnvelope]_vars

\* the text of the first of the keys, in priority order, whose value in obj
\* is a non-empty string; "" when there is none
FirstNonEmpty(obj) ==
  LET filled == {i \in 1..4 : /\ ImprovedKeys[i] \in DOMAIN obj.f
                              /\ obj.f[ImprovedKeys[i]].type = "string"
                              /\ obj.f[ImprovedKeys[i]].s # ""}
  IN  IF filled = {} THEN ""
      ELSE obj.f[ImprovedKeys[CHOOSE i \in filled : \A j \in filled : i <= j]].s

\* C12: the improved text of a response is the value of the first of the keys
\* polishedDescription, description, summary, text that holds a non-empty
\* string; a key of higher priority that is present but empty is skipped
C12_FirstNonEmptyKeyWins ==
  polishLog.normalized.type = "object"
    => polishLog.improvedText = Str(FirstNonEmpty(polishLog.normalized))

\* the bodies that carry X in an accepted shape: X itself, X under one of the
\* keys, each directly under improvedContent or content, nested under a
\* content key, or (an object) as the body itself
AcceptedBodies(X) ==
  LET shapes == {Str(X)} \cup {Obj(ImprovedKeys[i] :> Str(X)) : i \in 1..4}
  IN  {UnderImprovedContent(p) : p \in shapes}
        \cup {UnderContent(p) : p \in shapes}
        \cup {NestedUnderContent(p) : p \in shapes}
        \cup {AtTopLevel(p) : p \in shapes \ {Str(X)}}

\* C13: every accepted envelope shape that carries the text X normalizes to
\* the improved text X
C13_EveryShapeYieldsX ==
  \A X \in KeyTexts \ {""} :
    polishLog.data \in AcceptedBodies(X) => polishLog.improvedText = Str(X)


(* ------------------- the section forms: ids from the clock ------------- *)
\* readings of Date.now() in a session
MaxNow == 2

\* the id a form derives from the reading n of Date.now()
ClockIds == <<"id1", "id2", "id3">>

\* the contents a user types into the draft of a new entry
Drafts == {"raw", "draft"}

\* time passes: Date.now() reads a later millisecond
Tick ==
  /\ dateNow < MaxNow
  /\ dateNow' = dateNow + 1
  /\ polishLog' = NoPolishLog
  /\ UNCHANGED <<builderVars, previewVars, clock, templateFetches, newest, refData,
                 lastStep, pdfVars, sections>>

\* handleAdd / addSection of a list form: the new entry takes its id from
\* Date.now().  The skills form refuses a skill it already lists; the custom
\* section starts empty and is appended to the local list of its form too
\* (CustomSectionsSection, lines 17-33)
FormAdd(s, d) ==
  /\ s = "skills" => \A i \in DOMAIN resumeData.skills : resumeData.skills[i].description # d
  /\ LET entry == Entry(ClockIds[dateNow], IF s = "customSections" THEN "" ELSE d, "")
     IN  /\ HandleUpdate(UpdateMessage(s, entry.id, "add", entry))
         /\ sections' = IF s = "customSections" THEN Append(sections, entry) ELSE sections
  /\ UNCHANGED refData

\* updateSection, CustomSectionsSection lines 35-50: every entry of the local
\* list under the id takes the new value
updatedSections(list, id, d) ==
  [j \in DOMAIN list |-> IF list[j].id = id THEN [list[j] EXCEPT !.description = d]
                                            ELSE list[j]]

\* handleUpdate / updateSection of a list form: a field of the entry shown
\* at position i is edited; the message carries the entry the form finds
\* under that id, with the field changed.  The custom sections form shows
\* and searches its local list, the other forms the list of the store
FormUpdate(s, i, d) ==
  IF s = "customSections"
  THEN /\ i \in DOMAIN sections
       /\ LET id == sections[i].id
              updated == updatedSections(sections, id, d)
          IN  /\ HandleUpdate(UpdateMessage(s, id, "update", updated[findIndex(updated, id)]))
              /\ sections' = updated
       /\ UNCHANGED refData
  ELSE /\ i \in DOMAIN resumeData[s]
       /\ LET id == resumeData[s][i].id
              found == resumeData[s][findIndex(resumeData[s], id)]
          IN  Edit(UpdateMessage(s, id, "update", [found EXCEPT !.description = d]))

\* handleDelete / deleteSection of a list form; deleteSection filters the
\* local list as well (CustomSectionsSection, lines 52-62)
FormDelete(s, i) ==
  IF s = "customSections"
  THEN /\ i \in DOMAIN sections
       /\ HandleUpdate(UpdateMessage(s, sections[i].id, "delete", NullContent))
       /\ sections' = filter(sections, sections[i].id)
       /\ UNCHANGED refData
  ELSE /\ i \in DOMAIN resumeData[s]
       /\ Edit(UpdateMessage(s, resumeData[s][i].id, "delete", NullContent))

NextForms ==
  \/ Tick
  \/ \E s \in ListSections, d \in Drafts : FormAdd(s, d)
  \/ \E s \in ListSections, i \in 1..MaxEntries, d \in Texts : FormUpdate(s, i, d)
  \/ \E s \in ListSections, i \in 1..MaxEntries : FormDelete(s, i)

SpecForms == Init /\ [][NextForms]_vars

\* C15: no two entries of the same list share an id
C15_UniqueIdsPerList ==
  \A s \in ListSections :
    \A i, j \in DOMAIN resumeData[s] :
      i # j => resumeData[s][i].id # resumeData[s][j].id


\* C16: the generator becomes Initialized only on a header response that
\* reports success with source text; no section response and no failed
\* header response sets the flag
C16_InitializedOnlyByHeaderSuccess ==
  [][(isInitializedRef' /\ ~isInitializedRef)
       => /\ lastStep'.op = "headerResponse"
          /\ lastStep'.ok
          /\ latexCode'.scope = "header"]_vars

\* C16 witness: the header request a section trigger was redirected to while
\* Uninitialized has succeeded and the generator is Initialized
C16_Witness ==
  /\ lastStep.op = "headerResponse"
  /\ lastStep.ok
  /\ lastStep.via = "redirect"
  /\ ~lastStep.initAtStart
  /\ isInitializedRef
  /\ latexCode.scope = "header"


(* ------------- the preview as a component: section triggers ------------ *)
\* sections updateLatexSection has no case for
UnknownSections == {"name", "contact"}

\* the education form, filled before the first submit, the Scrape Template
\* button and the preview driven through its onSubmitUpdate prop: a trigger
\* for education, or for a section updateLatexSection does not know
NextSections ==
  \/ clock = 0 /\ \E d \in Drafts : FormAdd("education", d)
  \/ \E s \in {"education"} \cup UnknownSections : Submit(s)
  \/ ScrapeButton
  \/ \E fr \in calls, outcome \in TemplateOutcomes : TemplateResponse(fr, outcome)
  \/ \E fr \in calls, outcome \in LatexOutcomes : HeaderResponse(fr, outcome)
  \/ \E fr \in calls, outcome \in LatexOutcomes : SectionResponse(fr, outcome)

SpecSections == Init /\ [][NextSections]_vars

\* the request body holds the entry e of the document
CarriesEntry(payload, e) ==
  \/ /\ payload.type = "section"
     /\ payload.data.section \in ListSections
     /\ \E i \in DOMAIN payload.data.entry : payload.data.entry[i] = e
  \/ /\ payload.type = "header"
     /\ \E i \in DOMAIN payload.data.contact : payload.data.contact[i] = e

\* C17: from an empty document and an Uninitialized generator, once an
\* education entry has been added and the education section submitted, the
\* call, all of whose requests succeeded, leaves the generator Initialized
\* with a source text generated from that entry
C17_AddThenSubmitEducation ==
  (/\ TriggerSettled
   /\ lastStep.t = 1
   /\ lastStep.section = "education"
   /\ ~lastStep.initAtStart
   /\ lastStep.ok /\ ~lastStep.sectionFailed
   /\ Len(resumeData.education) > 0)
    => /\ isInitializedRef
       /\ \A i \in DOMAIN resumeData.education :
            CarriesEntry(latexCode.payload, resumeData.education[i])

\* keys under which a request body would hold the current source text
SourceTextKeys == {"latexCode", "currentLatex", "currentSourceText"}

\* C18: a section request, when it is sent, carries the section name and the
\* change type of its trigger, the data stored for that section and the
\* source text the generator holds
C18_SectionRequestBody ==
  [][\A fr \in calls' :
       (fr.at = "section" /\ \A g \in calls : (g.k = fr.k => g.at # "section"))
         => /\ fr.req.type = "section"
            /\ fr.req.data.section = fr.info.section
            /\ fr.req.action = fr.info.changeType
            /\ fr.info.section \in ListSections \cup {"aboutMe"}
                 => fr.req.data.entry = resumeData'[fr.info.section]
            /\ (DOMAIN fr.req \cup DOMAIN fr.req.data) \cap SourceTextKeys # {}]_vars

\* C19: in Initialized mode the call of a trigger for a section that
\* updateLatexSection does not know still sends its section request, with a
\* null section payload
C19_UnknownSectionStillSent ==
  [][(/\ lastStep'.section \in UnknownSections
      /\ lastStep'.initAtStart
      /\ \/ lastStep'.op = "submit" /\ lastStep'.scrapedAtStart
         \/ lastStep'.op = "templateResponse")
       => \E fr \in calls' :
            /\ fr.t = lastStep'.t
            /\ fr.at = "section"
            /\ fr.req.type = "section"
            /\ fr.req.data = [section |-> lastStep'.section, entry |-> NullContent]]_vars

\* C19 witness: Initialized, a section request for contact is in flight and
\* its payload is null
C19_Witness ==
  /\ isInitializedRef
  /\ \E fr \in calls :
       /\ fr.at = "section"
       /\ fr.info.section = "contact"
       /\ fr.req.data.entry = NullContent


(* ----------------------- generatePdf: object URLs ---------------------- *)
\* requests to /api/generate-final-pdf in a session
MaxCompiles == 3

\* the Generate PDF button (disabled while updating or without data):
\* generatePdf, lines 258-265, with the pdfUrl of the render it was clicked in
GeneratePdf ==
  /\ mounted
  /\ ~isUpdating /\ hasData(resumeData)
  /\ pdfRequests < MaxCompiles
  /\ pdfRequests' = pdfRequests + 1
  /\ pdfCalls' = pdfCalls \cup {[n |-> pdfRequests + 1, pdfUrl |-> pdfUrl]}
  /\ isUpdating' = TRUE
  /\ lastStep' = Step("generatePdf")
  /\ polishLog' = NoPolishLog
  /\ UNCHANGED <<builderVars, isTemplateScraped, isScrapingTemplate, error, latexCode,
                 isInitializedRef, calls, clock, templateFetches, newest, refData,
                 dateNow, pdfUrl, objectUrls, mounted, sections>>

\* the detail texts a failing compile service answers with, as the body of
\* its response
PdfBodies == {"Undefined control sequence", "Emergency stop"}

\* what the request of generatePdf comes back with: a blob, a response that
\* is not ok with a body, or no response at all (fetch rejects)
PdfOutcomes ==
  {[status |-> "ok", text |-> ""], [status |-> "rejected", text |-> "Failed to fetch"]}
    \cup {[status |-> "failed", text |-> b] : b \in PdfBodies}

pdfErrorStatusOnly(res) == "Failed to generate PDF"

\* the message of the error generatePdf throws and its catch displays:
\* lines 266-267 for a response that is not ok, e.message of the rejected
\* fetch otherwise (line 277)
pdfErrorMessage(res) ==
  IF res.status = "failed" THEN "Failed to generate PDF: " \o res.text ELSE res.text

\* generatePdf, lines 264-281, on the response of call pc.  With a blob:
\* revoke the pdfUrl of the closure, create the new object URL and
\* setPdfUrl; the render that follows runs the cleanup of the pdfUrl effect
\* (lines 284-291), which revokes the URL that was on display.  After the
\* unmount the state is gone and setPdfUrl, setError do nothing.  No branch
\* sends a request
PdfResponse(pc, res) ==
  /\ pc \in pdfCalls
  /\ pdfCalls' = pdfCalls \ {pc}
  /\ IF res.status = "ok"
     THEN LET created == (objectUrls \ {pc.pdfUrl}) \cup {pc.n}
          IN  IF mounted
              THEN /\ pdfUrl' = pc.n
                   /\ objectUrls' = created \ {pdfUrl}
                   /\ error' = Null
              ELSE /\ objectUrls' = created
                   /\ UNCHANGED <<pdfUrl, error>>
     ELSE /\ error' = IF mounted THEN pdfErrorMessage(res) ELSE error
          /\ UNCHANGED <<pdfUrl, objectUrls>>
  /\ isUpdating' = IF mounted THEN FALSE ELSE isUpdating
  /\ lastStep' = [Step("pdfResponse") EXCEPT !.ok = (res.status = "ok"), !.t = pc.n,
                                             !.text = res.text]
  /\ polishLog' = NoPolishLog
  /\ UNCHANGED <<builderVars, isTemplateScraped, isScrapingTemplate, latexCode,
                 isInitializedRef, calls, clock, templateFetches, newest, refData,
                 dateNow, pdfRequests, mounted, sections>>

\* the preview is unmounted: the cleanup of the pdfUrl effect revokes the URL
\* on display, lines 285-290
Unmount ==
  /\ mounted
  /\ mounted' = FALSE
  /\ objectUrls' = objectUrls \ {pdfUrl}
  /\ pdfUrl' = NoUrl
  /\ lastStep' = Step("unmount")
  /\ polishLog' = NoPolishLog
  /\ UNCHANGED <<builderVars, previewVars, clock, templateFetches, newest, refData,
                 dateNow, pdfCalls, pdfRequests, sections>>

\* the preview with its Generate PDF button, next to the header generation
\* that ends the updating state, until the preview is unmounted
NextPdf ==
  \/ mounted /\ \E v \in Names : Edit(NameChange("firstName", v))
  \/ mounted /\ ScrapeButton
  \/ mounted /\ Submit("header")
  \/ mounted /\ \E fr \in calls, outcome \in TemplateOutcomes : TemplateResponse(fr, outcome)
  \/ mounted /\ \E fr \in calls, outcome \in LatexOutcomes : HeaderResponse(fr, outcome)
  \/ GeneratePdf
  \/ \E pc \in pdfCalls, res \in PdfOutcomes : PdfResponse(pc, res)
  \/ Unmount

SpecPdf == Init /\ [][NextPdf]_vars

\* C20: every object URL that has been replaced on display, and after the
\* unmount every object URL, is revoked: the only URL not revoked is the one
\* on display, so at most one exists at any time
C20_ObjectUrlsReleased ==
  /\ Cardinality(objectUrls) <= 1
  /\ objectUrls \subseteq (IF mounted THEN {pdfUrl} ELSE {})


\* C21: when the compile service answers a generatePdf request with a failure,
\* the error on display carries the detail text of the body of that response,
\* not only a status, and the step sends no compile request: the number of
\* requests sent and the set of outstanding ones do not grow
C21_CompileFailureShowsDetail ==
  [][(lastStep'.op = "pdfResponse" /\ lastStep'.text \in PdfBodies /\ mounted)
       => /\ error' = "Failed to generate PDF: " \o lastStep'.text
          /\ pdfRequests' = pdfRequests
          /\ pdfCalls' \subseteq pdfCalls /\ pdfCalls' # pdfCalls]_vars

\* a compile failure whose detail text is on display
C21_Witness ==
  /\ lastStep.op = "pdfResponse" /\ lastStep.text = "Emergency stop" /\ mounted
  /\ error = "Failed to generate PDF: Emergency stop"
  /\ pdfRequests = 1 /\ pdfCalls = {}


\* C22: when the document is empty (hasData is false), the generated document
\* is cleared: the source text is empty and the generator is uninitialized
C22_EmptyDocumentClearsGenerated ==
  ~hasData(resumeData) => (latexCode = NoLatex /\ ~isInitializedRef)


\* C25: while the generator is Initialized the stored source text is not
\* empty and a template acquisition has succeeded; and every generation
\* request that is outstanding, header or section, was sent after a template
\* acquisition had succeeded
C25_InitializedHasSourceAndTemplate ==
  /\ isInitializedRef => (latexCode # NoLatex /\ isTemplateScraped)
  /\ \A fr \in calls : fr.at \in {"header", "section"} => isTemplateScraped

\* C25 witness: the generator is Initialized and a section request is
\* outstanding that was sent by a call which began before the template was
\* acquired
C25_Witness ==
  /\ isInitializedRef /\ latexCode # NoLatex /\ isTemplateScraped
  /\ \E fr \in calls : fr.at = "section" /\ ~fr.scraped


\* C26: whenever a header request, a section request or a compile request is
\* outstanding, the preview shows itself as updating (isUpdating is true)
C26_UpdatingWhileOutstanding ==
  (mounted /\ (Generating # {} \/ pdfCalls # {})) => isUpdating

\* C27: while a polish request for an entry is outstanding, isPolishing is
\* the id of that entry
C27_PolishingNamesOutstanding ==
  \A pc \in polishCalls : isPolishing = pc.entryId

\* C30: every generation request, the header request of a fallback included,
\* carries the document as it is stored at the moment the request is sent:
\* name and contact for a header request, the stored section for a section
\* request
C30_RequestCarriesStoredDocument ==
  [][\A fr \in calls' :
       (fr.at \in {"header", "section"} /\ \A g \in calls : (g.k = fr.k => g.at # fr.at))
         => fr.req = IF fr.at = "header" THEN headerPayload(resumeData')
                     ELSE sectionPayload(fr.info, resumeData')]_vars


\* C23: a template acquisition that fails leaves a visible error, and the
\* step of the failure sends no generation request: none can follow before a
\* later acquisition has succeeded
C23_TemplateFailureSurfaced ==
  [][(lastStep'.op = "templateResponse" /\ ~lastStep'.ok)
       => /\ error' # Null
          /\ \A fr \in calls' :
               fr.at \in {"header", "section"} => \E g \in calls : g.k = fr.k /\ g.at = fr.at]_vars


(* ------------------- the forms: original and polished text ------------- *)
\* the description a form displays for an entry: AboutMeSection, lines 74-76;
\* EducationSection, lines 149-152.  handleRevert, the 'Original' button, sets
\* showPolished to false
currentDescription(entry, showPolished) ==
  IF showPolished /\ entry.polishedDescription # ""
  THEN entry.polishedDescription
  ELSE entry.description

\* C24: a polish that succeeds does not lose the description the entry had
\* before it: until 'Use Polished' is clicked, the form reverted to
\* 'Original' displays the description as it was before the polish
C24_RevertShowsOriginal ==
  [][PolishSucceeded(resumeData, lastStep')
       => LET s == lastStep'.section
          IN  IF s = "aboutMe"
              THEN currentDescription(resumeData'.aboutMe, FALSE)
                     = resumeData.aboutMe.description
              ELSE \A i \in DOMAIN resumeData[s] \cap DOMAIN resumeData'[s] :
                     resumeData[s][i].id = lastStep'.entryId
                       => currentDescription(resumeData'[s][i], FALSE)
                            = resumeData[s][i].description]_vars


(* ------------- polish of an entry that is deleted meanwhile ------------ *)
\* the lists handlePolish has a case for, lines 220-245
PolishLists == {"education", "experience", "customSections"}

\* the list forms fill the document, then entries are polished and deleted
\* in any order: handlePolish for an entry of a list, the delete buttons and
\* the responses of the polish requests
NextDelete ==
  \/ polishCalls = {} /\ clock = 0 /\ Tick
  \/ polishCalls = {} /\ clock = 0 /\ \E s \in PolishLists : FormAdd(s, "raw")
  \/ polishCalls = {} /\ clock = 0 /\ \E i \in 1..MaxEntries : FormUpdate("customSections", i, "raw")
  \/ \E s \in PolishLists, i \in 1..MaxEntries : FormDelete(s, i)
  \/ \E s \in PolishLists, i \in 1..MaxNow : PolishStart(s, ClockIds[i])
  \/ \E pc \in polishCalls, res \in PolishResponses : PolishResponse(pc, res)

SpecDelete == Init /\ [][NextDelete]_vars

\* C28: the response of a polish whose target entry is no longer in its list
\* (it was deleted while the request was outstanding) leaves the document as
\* it is: the entry is not created again and no other entry is modified
C28_DeletedTargetStaysDeleted ==
  [][(/\ lastStep'.op = "polishResponse"
      /\ lastStep'.section \in PolishLists
      /\ \A i \in DOMAIN resumeData[lastStep'.section] :
           resumeData[lastStep'.section][i].id # lastStep'.entryId)
       => resumeData' = resumeData]_vars

\* C28 witness: a polish of an education entry has succeeded with improved
\* text after the entry was deleted; the list holds another entry, with its
\* own text
C28_Witness ==
  /\ lastStep.op = "polishResponse"
  /\ lastStep.text = Improved
  /\ lastStep.section = "education"
  /\ resumeData.education # <<>>
  /\ \A i \in DOMAIN resumeData.education :
       /\ resumeData.education[i].id # lastStep.entryId
       /\ resumeData.education[i].description = "raw"
       /\ resumeData.education[i].polishedDescription = ""


\* C29: after any sequence of add, field edit and delete actions in the
\* custom sections form, the local list of the form equals the
\* customSections of the store
C29_LocalListEqualsStore == sections = resumeData.customSections

====
